---- MODULE Spec2Model ----
(***************************************************************************)
(* A model of the flapper display driver (package flapper, flapper.go) and *)
(* of its lanes: the caller threads, the writer lane (writeMsgs), the      *)
(* reader lane (readFrames) and the dispatcher lane (communicate /         *)
(* handleFromMsg).  All channels of the program are unbuffered, so a       *)
(* channel operation is a rendezvous: one step in which the sender and the *)
(* receiver both move.  A panic in any goroutine ends the whole process:   *)
(* it is recorded in `fault` and no further step is taken.                 *)
(***************************************************************************)
EXTENDS Integers, Sequences, FiniteSets, TLC

\* ------------------------------------------------------------------ bounds
NumCallers == 2      \* caller threads (HTTP handlers, idler, CLI)
MaxReqs == 2         \* requests built over one run
MaxTx == 3           \* transmissions counted per request (the count saturates)
MaxReports == 2      \* status reports whose origin is tracked

\* ------------------------------------------------------- program constants
TagMod == 255
HalfWord == 65536    \* a uint32 is held as <<hi, lo>>, two 16-bit halves
DefaultCells == 24
RowLen == 12
MinFrame == 5        \* decodeMsg: the shortest frame looked at, delimiter included
CrcLen == 4          \* decodeMsg: the bytes of the trailing crc

Callers == 1..NumCallers
ReqIds == 1..MaxReqs
None == [id |-> 0]

\* runeSet, one character per element (Go indexes it from 0, TLA+ from 1).
RuneSet ==
  << " ", "a", "b", "c", "d", "e", "f", "g", "h", "i", "j", "k", "l", "m",
     "n", "o", "p", "q", "r", "s", "t", "u", "v", "w", "x", "y", "z",
     "0", "1", "2", "3", "4", "5", "6", "7", "8", "9", ".", ",", "'" >>

UpperCase ==
  << "A", "B", "C", "D", "E", "F", "G", "H", "I", "J", "K", "L", "M",
     "N", "O", "P", "Q", "R", "S", "T", "U", "V", "W", "X", "Y", "Z" >>

\* d.runes[r]: the index of r in runeSet; a rune the map does not hold reads
\* as the zero value 0.
RuneIndex(r) ==
  IF \E i \in 1..Len(RuneSet) : RuneSet[i] = r
    THEN (CHOOSE i \in 1..Len(RuneSet) : RuneSet[i] = r) - 1
    ELSE 0

\* ------------------------------------------------------------ text shaping
\* A string is the sequence of its runes.  "sz" stands for U+00DF, a rune of
\* two bytes and of width one that normalize leaves alone; BrokenRune is the
\* first byte of one, what a byte slice that ends inside the rune keeps.
TwoByteRunes == { "sz" }

BrokenRune == "sz[:1]"

RuneBytes(c) == IF c \in TwoByteRunes THEN 2 ELSE 1

\* len(s): the bytes of s.
RECURSIVE Bytes(_)
Bytes(s) == IF Len(s) = 0 THEN 0 ELSE RuneBytes(Head(s)) + Bytes(Tail(s))

\* s[:n] for n <= len(s): the first n bytes of s.
RECURSIVE TruncBytes(_, _)
TruncBytes(s, n) ==
  IF n = 0 \/ Len(s) = 0 THEN << >>
  ELSE IF RuneBytes(Head(s)) <= n
    THEN << Head(s) >> \o TruncBytes(Tail(s), n - RuneBytes(Head(s)))
  ELSE << BrokenRune >>

\* The byte offset of the k-th rune of s, from 0: the i of "for i, r := range s".
ByteOffset(s, k) == Bytes(SubSeq(s, 1, k - 1))

ToLower(c) ==
  IF \E i \in 1..Len(UpperCase) : UpperCase[i] = c
    THEN RuneSet[(CHOOSE i \in 1..Len(UpperCase) : UpperCase[i] = c) + 1]
    ELSE c

normalize(s) == [i \in 1..Len(s) |-> ToLower(s[i])]

IsSpace(c) == c = " "

Spaces(n) == [i \in 1..n |-> " "]

\* wordwrap.String(text, 12): the writer's state is (buf, space, word, lineLen).
WWAddSpace(st) ==
  [st EXCEPT !.lineLen = st.lineLen + Len(st.space),
             !.buf = st.buf \o st.space,
             !.space = << >>]

WWAddWord(st) ==
  IF Len(st.word) > 0
    THEN LET t == WWAddSpace(st)
         IN [t EXCEPT !.lineLen = t.lineLen + Len(t.word),
                      !.buf = t.buf \o t.word,
                      !.word = << >>]
    ELSE st

WWAddNewline(st) ==
  [st EXCEPT !.buf = st.buf \o << "\n" >>, !.lineLen = 0, !.space = << >>]

WWStep(st, c) ==
  IF c = "\n"
    THEN LET t == IF Len(st.word) = 0
                    THEN IF st.lineLen + Len(st.space) > RowLen
                           THEN [st EXCEPT !.lineLen = 0, !.space = << >>]
                           ELSE [st EXCEPT !.buf = st.buf \o st.space, !.space = << >>]
                    ELSE st
         IN WWAddNewline(WWAddWord(t))
  ELSE IF IsSpace(c)
    THEN LET t == WWAddWord(st) IN [t EXCEPT !.space = t.space \o << c >>]
  ELSE IF c = "-"
    THEN LET t == WWAddWord(WWAddSpace(st)) IN [t EXCEPT !.buf = t.buf \o << c >>]
  ELSE LET t == [st EXCEPT !.word = st.word \o << c >>]
       IN IF t.lineLen + Len(t.space) + Len(t.word) > RowLen /\ Len(t.word) < RowLen
            THEN WWAddNewline(t)
            ELSE t

\* The writer takes the runes of s one by one. (lineLen is never negative:
\* the test has TLC evaluate each state as it is made, not all of them nested
\* at the end.)
RECURSIVE WWRun(_, _, _)
WWRun(st, s, i) ==
  IF i > Len(s) \/ st.lineLen < 0 THEN st ELSE WWRun(WWStep(st, s[i]), s, i + 1)

WordWrap(s) ==
  WWAddWord(WWRun([buf |-> << >>, space |-> << >>, word |-> << >>, lineLen |-> 0], s, 1)).buf

\* wrap.String(text, 12): a hard wrap at the row width.
PrintableWidth(s) == Cardinality({i \in 1..Len(s) : s[i] # "\n"})

HWStep(st, c) ==
  IF c = "\n"
    THEN [buf |-> st.buf \o << "\n" >>, lineLen |-> 0, forced |-> FALSE]
    ELSE LET t == IF st.lineLen + 1 > RowLen
                    THEN [buf |-> st.buf \o << "\n" >>, lineLen |-> 0, forced |-> TRUE]
                    ELSE st
         IN IF t.lineLen = 0 /\ t.forced /\ IsSpace(c)
              THEN t
              ELSE [buf |-> t.buf \o << c >>,
                    lineLen |-> t.lineLen + 1,
                    forced |-> IF t.lineLen = 0 THEN t.forced ELSE FALSE]

\* The runes of s one by one, evaluated as in WWRun.
RECURSIVE HWRun(_, _, _)
HWRun(st, s, i) ==
  IF i > Len(s) \/ st.lineLen < 0 THEN st ELSE HWRun(HWStep(st, s[i]), s, i + 1)

HardWrap(s) ==
  IF PrintableWidth(s) <= RowLen
    THEN s
    ELSE HWRun([buf |-> << >>, lineLen |-> 0, forced |-> FALSE], s, 1).buf

\* strings.SplitN(text, "\n", 3): at most three pieces, the last one unsplit.
RECURSIVE SplitN(_, _)
SplitN(s, n) ==
  IF n = 1 \/ ~(\E i \in 1..Len(s) : s[i] = "\n")
    THEN << s >>
    ELSE LET k == CHOOSE i \in 1..Len(s) :
                    s[i] = "\n" /\ \A j \in 1..(i - 1) : s[j] # "\n"
         IN << SubSeq(s, 1, k - 1) >> \o SplitN(SubSeq(s, k + 1, Len(s)), n - 1)

\* padding.String(line, 12): a line of length 0 is left alone.
PadRow(line) ==
  IF Len(line) = 0 \/ Len(line) >= RowLen
    THEN line
    ELSE line \o Spaces(RowLen - Len(line))

\* The row is padded to a width of 12 and cut to 12 bytes.
FitRow(line) ==
  LET l1 == IF Bytes(line) = 0 THEN << " " >> ELSE line
      l2 == PadRow(l1)
  IN IF Bytes(l2) > RowLen THEN TruncBytes(l2, RowLen) ELSE l2

PrepText(text) ==
  LET wrapped == HardWrap(WordWrap(normalize(text)))
      parts == SplitN(wrapped, 3)
      lines == IF Len(parts) < 2 THEN parts \o << << " " >> >> ELSE parts
  IN FitRow(lines[1]) \o FitRow(lines[2])


\* --------------------------------------------------------- protocol values
\* Mutant of Tag: the remainder is taken modulo 256.
TagOfByte(n) == (n[1] + n[2]) % (TagMod + 1)

\* A uint32 held as <<hi, lo>>: its value is hi * 65536 + lo.  Since
\* 65536 % 255 = 1, the value modulo 255 is (hi + lo) % 255.
Tag(n) == (n[1] + n[2]) % TagMod

Inc(n) ==
  IF n[2] + 1 < HalfWord THEN << n[1], n[2] + 1 >>
  ELSE IF n[1] + 1 < HalfWord THEN << n[1] + 1, 0 >>
  ELSE << 0, 0 >>

\* rand.Uint32(): the values the counter is drawn from.
NonceInits == { << 0, 254 >> }

\* rand.Uint32() at the edges of the counter: below a multiple of 255, at the
\* carry between the halves, and at the last two values before the wrap.
NonceEdges ==
  { << 0, 254 >>, << 0, HalfWord - 1 >>, << HalfWord - 1, HalfWord - 2 >>,
    << HalfWord - 1, HalfWord - 1 >> }

\* proto.Settings_AnimationStyle_value
AnimStyleValue(name) ==
  IF name = "LEFT_TO_RIGHT" THEN 0
  ELSE IF name = "RANDOM" THEN 1
  ELSE -1

DefaultSettings ==
  [forceFullRotation |-> FALSE, maxMoving |-> 0, startDelayMillis |-> 0,
   animationStyle |-> 0]

\* proto.SplitflapState{Settings: &proto.Settings{}}; a module is held as its
\* flap index.
DefaultStatus == [modules |-> << >>, settings |-> DefaultSettings]

\* The status reports the device sends.
StatusReports ==
  << [modules |-> [i \in 1..DefaultCells |-> IF i = 1 THEN 8 ELSE IF i = 2 THEN 9 ELSE 0],
      settings |-> DefaultSettings],
     [modules |-> << 0, 1, 2 >>,
      settings |-> [DefaultSettings EXCEPT !.maxMoving = 2]] >>

DeviceAckTags == { 0, 254 }

\* What decodeMsg hands to the dispatcher.
DeviceMsgs ==
  { [type |-> "state", rep |-> k] : k \in 1..Len(StatusReports) }
    \cup { [type |-> "ack", nonce |-> n] : n \in DeviceAckTags }
    \cup { [type |-> "log"], [type |-> "other"] }

\* The inputs of the caller operations.
Texts == { << "H", "i" >> }

\* Texts for PrepText: empty, short, a word longer than a row, words that
\* wrap, a leading space that pushes a long word to row 2, a newline, three
\* rows, and two with a two-byte rune.
PrepInputs ==
  { << >>,
    << "H", "i" >>,
    << "a", "b", "c", "d", "e", "f", "g", "h", "i", "j", "k", "l", "m", "n" >>,
    << "h", "e", "l", "l", "o", " ", "w", "o", "r", "l", "d", " ", "x", "y" >>,
    << " ", "a", "b", "c", "d", "e", "f", "g", "h", "i", "j", "k", "l" >>,
    << "a", "\n", "b" >>,
    << "a", "\n", "b", "\n", "c" >>,
    << "4", ".", "6", " ", "t", "o", "n", "g", "a", "-", "f", "i", "j", "i", " ", "i", "s", "." >>,
    << "sz" >>,
    << "S", "t", "r", "a", "sz", "e", " ", "1", "2" >> }
MaxMovingVals == { 3 }
StartDelayVals == { 5 }
ForceRotationVals == { TRUE }
AnimStyleNames == { "RANDOM", "bogus" }

\* currentText: runeSet[m.FlapIndex] for each module, in order.
FlapInRange(st) == \A i \in 1..Len(st.modules) : st.modules[i] < Len(RuneSet)

currentText(st) == [i \in 1..Len(st.modules) |-> RuneSet[st.modules[i] + 1]]

\* SetText's module commands: a slice of d.cells entries, entry i set from the
\* rune that starts at byte i of the prepared text; the other entries stay
\* nil (-1).
ModuleCommands(prepared, n) ==
  [i \in 1..n |->
     IF \E k \in 1..Len(prepared) : ByteOffset(prepared, k) = i - 1
       THEN RuneIndex(prepared[CHOOSE k \in 1..Len(prepared) :
                                 ByteOffset(prepared, k) = i - 1])
       ELSE -1]

\* mc[i] is in range for every rune of the prepared text.
FitsCells(prepared, n) ==
  \A k \in 1..Len(prepared) : ByteOffset(prepared, k) < n

FaultNone == "none"
FaultRead == "panic: failed to read from display"
FaultSendClosed == "panic: send on closed channel"
FaultIndex == "panic: index out of range"
FaultSlice == "panic: slice bounds out of range"

VARIABLES
  nonce,        \* d.nonce, as <<hi, lo>>
  rwOpen,       \* d.rw has not been closed
  tdClosed,     \* d.toDisplay has been closed
  text,         \* d.text
  cells,        \* d.cells
  lastStatus,   \* d.lastStatus
  cPc,          \* where each caller thread is
  cReq,         \* the sendReq each caller holds
  wPc,          \* where writeMsgs is
  wReq,         \* writeMsgs' req (None outside the retry loop)
  wNonce,       \* writeMsgs' local nonce
  rPc,          \* where readFrames is
  rMsg,         \* the message readFrames decoded
  dPc,          \* where communicate/handleFromMsg is
  dMsg,         \* the message handleFromMsg holds
  fault,        \* the panic that ended the process, if any
  wire,         \* the last frame written to the transport
  nextId,       \* history: the next request's serial number
  accepted,     \* history: the requests in the order writeMsgs received them
  doneOrder,    \* history: the requests in the order their requesters were signalled
  result,       \* history: what each request's requester received
  sent,         \* history: the requests transmitted at least once
  tx,           \* history: transmissions of writeMsgs' req (saturating at MaxTx)
  firstTx,      \* history: the first frame transmitted for writeMsgs' req
  ackMatched,   \* history: an ack with req's nonce reached writeMsgs
  wrFailed,     \* history: a transport write failed for writeMsgs' req
  nApplied,     \* history: status reports fully applied (saturating)
  ackIdle,      \* history: handleFromMsg took the ack it holds with no request pending
  qPc,          \* where QuakeMon.Run is
  qEnable,      \* Run's enable
  qShowing,     \* Run's showing
  qURL,         \* q.currentQuakeURL
  tArmed,       \* Run's timer t is running
  tFull,        \* t.C holds a value
  ctxDone       \* Run's context has been cancelled

dvars == << nonce, rwOpen, tdClosed, text, cells, lastStatus >>
cvars == << cPc, cReq >>
wvars == << wPc, wReq, wNonce >>
rvars == << rPc, rMsg >>
ovars == << nextId, accepted, doneOrder, result >>
pvars == << sent, tx, firstTx, ackMatched, wrFailed >>
hvars == << ovars, pvars >>
qvars == << qPc, qEnable, qShowing, qURL, tArmed, tFull, ctxDone >>
vars == << nonce, rwOpen, tdClosed, text, cells, lastStatus, cPc, cReq,
           wPc, wReq, wNonce, rPc, rMsg, dPc, dMsg, fault, wire, nextId,
           accepted, doneOrder, result, sent, tx, firstTx, ackMatched,
           wrFailed, nApplied, ackIdle, qPc, qEnable, qShowing, qURL,
           tArmed, tFull, ctxDone >>

Running == fault = FaultNone

\* The state once NewDisplay has returned with its readStatus acknowledged:
\* the lanes run, writeMsgs has drawn the nonce of the next request (n is the
\* counter before that draw) and waits for a request, and no status report
\* has been applied yet.
InitWith(inits) ==
  /\ \E n \in inits : wNonce = Tag(n) /\ nonce = Inc(n)
  /\ rwOpen = TRUE
  /\ tdClosed = FALSE
  /\ text = << >>
  /\ cells = DefaultCells
  /\ lastStatus = DefaultStatus
  /\ cPc = [c \in Callers |-> "idle"]
  /\ cReq = [c \in Callers |-> None]
  /\ wPc = "recv"
  /\ wReq = None
  /\ rPc = "read"
  /\ rMsg = None
  /\ dPc = "recv"
  /\ dMsg = None
  /\ fault = FaultNone
  /\ wire = None
  /\ nextId = 1
  /\ accepted = << >>
  /\ doneOrder = << >>
  /\ result = [r \in ReqIds |-> "none"]
  /\ sent = {}
  /\ tx = 0
  /\ firstTx = None
  /\ ackMatched = FALSE
  /\ wrFailed = FALSE
  /\ nApplied = 0
  /\ ackIdle = FALSE
  /\ qPc = "off"
  /\ qEnable = TRUE
  /\ qShowing = FALSE
  /\ qURL = ""
  /\ tArmed = FALSE
  /\ tFull = FALSE
  /\ ctxDone = FALSE

Init == InitWith(NonceInits)


\* ------------------------------------------------------------ caller threads
CanStart(c) == Running /\ cPc[c] = "idle" /\ nextId <= MaxReqs

\* Mutant of SetTextBuild: the prepared text is also stored in d.text.
SetTextBuildStoresText(c, t) ==
  /\ CanStart(c)
  /\ FitsCells(PrepText(t), cells)
  /\ text' = PrepText(t)
  /\ cReq' = [cReq EXCEPT ![c] =
        [id |-> nextId, kind |-> "command", text |-> PrepText(t),
         body |-> ModuleCommands(PrepText(t), cells)]]
  /\ cPc' = [cPc EXCEPT ![c] = "submit"]
  /\ nextId' = nextId + 1
  /\ UNCHANGED << qvars, ackIdle, nonce, rwOpen, tdClosed, cells, lastStatus, wvars, rvars,
                  dPc, dMsg, fault, wire, accepted, doneOrder, result, pvars,
                  nApplied >>

\* SetText up to the send: text = d.PrepText(text), then the module commands,
\* one per rune of the prepared text, stored at the rune's byte offset into a
\* slice of d.cells entries.
SetTextBuild(c, t) ==
  /\ CanStart(c)
  /\ LET prepared == PrepText(t)
     IN IF ~FitsCells(prepared, cells)
          THEN /\ fault' = FaultIndex
               /\ UNCHANGED << cPc, cReq, nextId >>
          ELSE /\ cReq' = [cReq EXCEPT ![c] =
                     [id |-> nextId, kind |-> "command", text |-> prepared,
                      body |-> ModuleCommands(prepared, cells)]]
               /\ cPc' = [cPc EXCEPT ![c] = "submit"]
               /\ nextId' = nextId + 1
               /\ UNCHANGED fault
  /\ UNCHANGED << qvars, ackIdle, dvars, wvars, rvars, dPc, dMsg, wire, accepted, doneOrder,
                  result, pvars, nApplied >>

\* Init up to the send.
InitBuild(c) ==
  /\ CanStart(c)
  /\ cReq' = [cReq EXCEPT ![c] = [id |-> nextId, kind |-> "requestState", body |-> << >>]]
  /\ cPc' = [cPc EXCEPT ![c] = "submit"]
  /\ nextId' = nextId + 1
  /\ UNCHANGED << qvars, ackIdle, dvars, wvars, rvars, dPc, dMsg, fault, wire, accepted,
                  doneOrder, result, pvars, nApplied >>

\* The first statement of a setter: the write of one settings field. The call
\* keeps its argument.
SetterWrite(c, field, v) ==
  /\ CanStart(c)
  /\ lastStatus' = [lastStatus EXCEPT !.settings[field] = v]
  /\ cReq' = [cReq EXCEPT ![c] = [id |-> nextId, field |-> field, value |-> v]]
  /\ cPc' = [cPc EXCEPT ![c] = "config"]
  /\ nextId' = nextId + 1
  /\ UNCHANGED << qvars, ackIdle, nonce, rwOpen, tdClosed, text, cells, wvars, rvars, dPc,
                  dMsg, fault, wire, accepted, doneOrder, result, pvars,
                  nApplied >>

SetForceRotation(c, on) == SetterWrite(c, "forceFullRotation", on)

SetMaxMoving(c, max) == SetterWrite(c, "maxMoving", max)

SetStartDelay(c, delay) == SetterWrite(c, "startDelayMillis", delay)

\* Mutant of SetAnimStyle: ok is not tested, so an unknown name stores the
\* zero value of the failed lookup and goes on to sendConfigCmd.
SetAnimStyleIgnoresOk(c, animStyle) ==
  IF AnimStyleValue(animStyle) < 0
    THEN SetterWrite(c, "animationStyle", 0)
    ELSE SetterWrite(c, "animationStyle", AnimStyleValue(animStyle))

\* An unknown name: the lookup fails and the call is about to return
\* errors.New("unknown animation style").
SetAnimStyle(c, animStyle) ==
  IF AnimStyleValue(animStyle) < 0
    THEN /\ Running
         /\ cPc[c] = "idle"
         /\ cPc' = [cPc EXCEPT ![c] = "rejected"]
         /\ UNCHANGED << dvars, cReq, wvars, rvars, dPc, dMsg, fault, wire,
                         hvars, nApplied, ackIdle, qvars >>
    ELSE SetterWrite(c, "animationStyle", AnimStyleValue(animStyle))

\* SetAnimStyle returns the error to its caller.
SetAnimStyleReturn(c) ==
  /\ Running
  /\ cPc[c] = "rejected"
  /\ cPc' = [cPc EXCEPT ![c] = "idle"]
  /\ UNCHANGED << qvars, ackIdle, dvars, cReq, wvars, rvars, dPc, dMsg, fault, wire,
                  hvars, nApplied >>

\* sendConfigCmd up to the send: the request copies the four settings.
SendConfigCmdBuild(c) ==
  /\ Running
  /\ cPc[c] = "config"
  /\ cReq' = [cReq EXCEPT ![c] =
        [id |-> cReq[c].id, kind |-> "config", body |-> lastStatus.settings,
         field |-> cReq[c].field, value |-> cReq[c].value]]
  /\ cPc' = [cPc EXCEPT ![c] = "submit"]
  /\ UNCHANGED << qvars, ackIdle, dvars, wvars, rvars, dPc, dMsg, fault, wire, hvars, nApplied >>

\* d.toDisplay <- req on the closed channel.
SendOnClosed(c) ==
  /\ Running
  /\ cPc[c] = "submit"
  /\ tdClosed
  /\ fault' = FaultSendClosed
  /\ UNCHANGED << qvars, ackIdle, dvars, cvars, wvars, rvars, dPc, dMsg, wire, hvars, nApplied >>

\* The accessors return d.text, &d.lastStatus and d.lastStatus.Settings.
Text(c) == Running /\ cPc[c] = "idle" /\ UNCHANGED vars

Status(c) == Running /\ cPc[c] = "idle" /\ UNCHANGED vars

Settings(c) == Running /\ cPc[c] = "idle" /\ UNCHANGED vars

\* Close, first statement: d.rw.Close().  A Display is closed once.
CloseRW(c) ==
  /\ Running
  /\ cPc[c] = "idle"
  /\ rwOpen
  /\ rwOpen' = FALSE
  /\ cPc' = [cPc EXCEPT ![c] = "closing"]
  /\ UNCHANGED << qvars, ackIdle, nonce, tdClosed, text, cells, lastStatus, cReq, wvars,
                  rvars, dPc, dMsg, fault, wire, hvars, nApplied >>

\* Close, second statement: close(d.toDisplay).
CloseChan(c) ==
  /\ Running
  /\ cPc[c] = "closing"
  /\ tdClosed' = TRUE
  /\ cPc' = [cPc EXCEPT ![c] = "idle"]
  /\ UNCHANGED << qvars, ackIdle, nonce, rwOpen, text, cells, lastStatus, cReq, wvars,
                  rvars, dPc, dMsg, fault, wire, hvars, nApplied >>

\* ---------------------------------------------------------------- writeMsgs
\* d.nextNonce(), as the pair (the value returned, the counter afterwards).
nextNonce == << Tag(nonce), Inc(nonce) >>

\* for req := range toDisplay, with req.msg.Nonce = nonce: the rendezvous with
\* a caller blocked in d.toDisplay <- req.
WriterRecv(c) ==
  /\ Running
  /\ wPc = "recv"
  /\ ~tdClosed
  /\ cPc[c] = "submit"
  /\ wReq' = [id |-> cReq[c].id, caller |-> c,
              msg |-> [nonce |-> wNonce, kind |-> cReq[c].kind, body |-> cReq[c].body]]
  /\ wPc' = "write"
  /\ cPc' = [cPc EXCEPT ![c] = "wait"]
  /\ accepted' = Append(accepted, cReq[c].id)
  /\ tx' = 0
  /\ firstTx' = None
  /\ ackMatched' = FALSE
  /\ wrFailed' = FALSE
  /\ UNCHANGED << qvars, ackIdle, dvars, cReq, wNonce, rvars, dPc, dMsg, fault, wire, nextId,
                  doneOrder, result, sent, nApplied >>

\* The range loop ends once toDisplay is closed.
WriterExit ==
  /\ Running
  /\ wPc = "recv"
  /\ tdClosed
  /\ wPc' = "exit"
  /\ UNCHANGED << qvars, ackIdle, dvars, cvars, wReq, wNonce, rvars, dPc, dMsg, fault, wire,
                  hvars, nApplied >>

\* Mutant of WriterWriteOK: the nonce is drawn inside the retry loop, so each
\* transmission carries a fresh one.
WriterWriteFreshNonce ==
  /\ Running
  /\ wPc = "write"
  /\ rwOpen
  /\ wire' = [wReq.msg EXCEPT !.nonce = nextNonce[1]]
  /\ nonce' = nextNonce[2]
  /\ wNonce' = nextNonce[1]
  /\ sent' = sent \cup { wReq.id }
  /\ tx' = IF tx < MaxTx THEN tx + 1 ELSE tx
  /\ firstTx' = IF tx = 0 THEN wire' ELSE firstTx
  /\ wPc' = "select"
  /\ UNCHANGED << qvars, ackIdle, rwOpen, tdClosed, text, cells, lastStatus, cvars, wReq,
                  rvars, dPc, dMsg, fault, ovars, ackMatched, wrFailed, nApplied >>

\* d.write(req.msg) returning nil: the frame of req.msg is on the wire.
WriterWriteOK ==
  /\ Running
  /\ wPc = "write"
  /\ rwOpen
  /\ wire' = wReq.msg
  /\ sent' = sent \cup { wReq.id }
  /\ tx' = IF tx < MaxTx THEN tx + 1 ELSE tx
  /\ firstTx' = IF tx = 0 THEN wReq.msg ELSE firstTx
  /\ wPc' = "select"
  /\ UNCHANGED << qvars, ackIdle, dvars, cvars, wReq, wNonce, rvars, dPc, dMsg, fault, ovars,
                  ackMatched, wrFailed, nApplied >>

\* d.write(req.msg) returning an error: always on a closed port, and whenever
\* the transport refuses the write on an open one.
WriterWriteFail ==
  /\ Running
  /\ wPc = "write"
  /\ wrFailed' = TRUE
  /\ wPc' = "sendErr"
  /\ UNCHANGED << qvars, ackIdle, dvars, cvars, wReq, wNonce, rvars, dPc, dMsg, fault, wire,
                  ovars, sent, tx, firstTx, ackMatched, nApplied >>

\* The requester is blocked in <-ch for the request writeMsgs holds.
Waiting(c) == cPc[c] = "wait" /\ cReq[c].id = wReq.id

\* req.ch <- err: the rendezvous with the requester, which returns err.
WriterSendErr ==
  /\ Running
  /\ wPc = "sendErr"
  /\ Waiting(wReq.caller)
  /\ cPc' = [cPc EXCEPT ![wReq.caller] = "idle"]
  /\ result' = [result EXCEPT ![wReq.id] = "err"]
  /\ doneOrder' = Append(doneOrder, wReq.id)
  /\ wPc' = "select"
  /\ UNCHANGED << qvars, ackIdle, dvars, cReq, wReq, wNonce, rvars, dPc, dMsg, fault, wire,
                  nextId, accepted, pvars, nApplied >>

\* Mutant of WriterTimeout: the timer case sets acked, so the request is
\* dropped unsignalled and the loop goes on to the next one.
WriterTimeoutGivesUp ==
  /\ Running
  /\ wPc = "select"
  /\ wPc' = "recv"
  /\ wReq' = None
  /\ wNonce' = nextNonce[1]
  /\ nonce' = nextNonce[2]
  /\ UNCHANGED << qvars, ackIdle, rwOpen, tdClosed, text, cells, lastStatus, cvars, rvars, dPc,
                  dMsg, fault, wire, hvars, nApplied >>

\* case <-timer.C: nothing to do, the loop sends again.
WriterTimeout ==
  /\ Running
  /\ wPc = "select"
  /\ wPc' = "write"
  /\ UNCHANGED << qvars, ackIdle, dvars, cvars, wReq, wNonce, rvars, dPc, dMsg, fault, wire,
                  hvars, nApplied >>

\* Mutant of WriterAck: acked is set outside the comparison, so an ack with
\* another nonce ends the retry loop without signalling the requester.
WriterAckEndsLoop ==
  /\ Running
  /\ wPc = "select"
  /\ dPc = "ack"
  /\ IF dMsg.nonce = wNonce
       THEN wPc' = "sendNil" /\ UNCHANGED << wReq, wNonce, nonce >>
       ELSE /\ wPc' = "recv"
            /\ wReq' = None
            /\ wNonce' = nextNonce[1]
            /\ nonce' = nextNonce[2]
  /\ ackMatched' = (ackMatched \/ dMsg.nonce = wReq.msg.nonce)
  /\ dPc' = "recv"
  /\ dMsg' = None
  /\ ackIdle' = FALSE
  /\ UNCHANGED << qvars, rwOpen, tdClosed, text, cells, lastStatus, cvars, rvars,
                  fault, wire, ovars, sent, tx, firstTx, wrFailed, nApplied >>

\* Mutant of WriterAck: the nonce is not compared, any ack completes the
\* request.
WriterAckAny ==
  /\ Running
  /\ wPc = "select"
  /\ dPc = "ack"
  /\ wPc' = "sendNil"
  /\ ackMatched' = (ackMatched \/ dMsg.nonce = wReq.msg.nonce)
  /\ dPc' = "recv"
  /\ dMsg' = None
  /\ ackIdle' = FALSE
  /\ UNCHANGED << qvars, dvars, cvars, wReq, wNonce, rvars, fault, wire, ovars, sent,
                  tx, firstTx, wrFailed, nApplied >>

\* case ackNonce := <-acks: the rendezvous with handleFromMsg's acks <- nonce.
\* A matching nonce sets acked; any other leaves the select and the loop sends
\* again.
WriterAck ==
  /\ Running
  /\ wPc = "select"
  /\ dPc = "ack"
  /\ wPc' = IF dMsg.nonce = wNonce THEN "sendNil" ELSE "write"
  /\ ackMatched' = (ackMatched \/ dMsg.nonce = wReq.msg.nonce)
  /\ dPc' = "recv"
  /\ dMsg' = None
  /\ ackIdle' = FALSE
  /\ UNCHANGED << qvars, dvars, cvars, wReq, wNonce, rvars, fault, wire, ovars, sent,
                  tx, firstTx, wrFailed, nApplied >>

\* req.ch <- nil: the rendezvous with the requester, which returns nil; then
\* the timer is stopped and nonce = d.nextNonce().
WriterSendNil ==
  /\ Running
  /\ wPc = "sendNil"
  /\ Waiting(wReq.caller)
  /\ cPc' = [cPc EXCEPT ![wReq.caller] = "idle"]
  /\ result' = [result EXCEPT ![wReq.id] = "ok"]
  /\ doneOrder' = Append(doneOrder, wReq.id)
  /\ wNonce' = nextNonce[1]
  /\ nonce' = nextNonce[2]
  /\ wReq' = None
  /\ wPc' = "recv"
  /\ UNCHANGED << qvars, ackIdle, rwOpen, tdClosed, text, cells, lastStatus, cReq, rvars, dPc,
                  dMsg, fault, wire, nextId, accepted, pvars, nApplied >>

\* --------------------------------------------------------------- readFrames
\* rdr.ReadBytes(0) and decodeMsg yield a message: readFrames goes on to
\* fromDisplay <- msg.
ReadFrame(m) ==
  /\ Running
  /\ rPc = "read"
  /\ rwOpen
  /\ rMsg' = m
  /\ rPc' = "send"
  /\ UNCHANGED << qvars, ackIdle, dvars, cvars, wvars, dPc, dMsg, fault, wire, hvars, nApplied >>

\* decodeMsg returns an error: it is printed and the loop reads on.
ReadBadFrame ==
  /\ Running
  /\ rPc = "read"
  /\ rwOpen
  /\ UNCHANGED vars

\* rdr.ReadBytes(0) returns an error (always once the port is closed): panic.
ReadFail ==
  /\ Running
  /\ rPc = "read"
  /\ fault' = FaultRead
  /\ UNCHANGED << qvars, ackIdle, dvars, cvars, wvars, rvars, dPc, dMsg, wire, hvars, nApplied >>

\* A frame as rdr.ReadBytes(0) returns it: len bytes with the delimiter;
\* whether the bytes before the delimiter are a valid byte-stuffing and, if
\* so, the dlen bytes they decode to; whether the last four of those are the
\* crc of the rest; whether the rest unmarshals, and to which message.
Frame(len, stuffed, dlen, crc, parse, msg) ==
  [len |-> len, stuffed |-> stuffed, dlen |-> dlen, crc |-> crc,
   parse |-> parse, msg |-> msg]

\* The frames the transport delivers.  Byte-stuffing costs at least one
\* byte, so a frame of len bytes decodes to at most len - 2.
RawFrames ==
  { Frame(1, TRUE, 0, FALSE, FALSE, None),
    Frame(MinFrame - 1, TRUE, MinFrame - 3, FALSE, FALSE, None),
    Frame(MinFrame, FALSE, 0, FALSE, FALSE, None),
    Frame(MinFrame, TRUE, MinFrame - 2, FALSE, FALSE, None),
    Frame(MinFrame + 1, TRUE, CrcLen, TRUE, TRUE, [type |-> "other"]),
    Frame(MinFrame + 4, TRUE, CrcLen + 3, FALSE, TRUE, [type |-> "log"]),
    Frame(MinFrame + 4, TRUE, CrcLen + 3, TRUE, FALSE, None),
    Frame(MinFrame + 4, TRUE, CrcLen + 3, TRUE, TRUE, [type |-> "log"]),
    Frame(MinFrame + 4, TRUE, CrcLen + 3, TRUE, TRUE, [type |-> "ack", nonce |-> 254]) }

\* decodeMsg: the message, an error, or the panic of b[len(b)-4:] on fewer
\* than four decoded bytes.
decodeMsg(f) ==
  IF f.len < MinFrame THEN [kind |-> "err", err |-> "empty frame"]
  ELSE IF ~f.stuffed THEN [kind |-> "err", err |-> "failed to decode cobs frame"]
  ELSE IF f.dlen < CrcLen THEN [kind |-> "panic"]
  ELSE IF ~f.crc THEN [kind |-> "err", err |-> "bad crc"]
  ELSE IF ~f.parse THEN [kind |-> "err", err |-> "failed to unmarshal protobuf message"]
  ELSE [kind |-> "msg", msg |-> f.msg]

\* b, err := rdr.ReadBytes(0) returns the frame f.
ReadBytes(f) ==
  /\ Running
  /\ rPc = "read"
  /\ rwOpen
  /\ rMsg' = f
  /\ rPc' = "decode"
  /\ UNCHANGED << qvars, ackIdle, dvars, cvars, wvars, dPc, dMsg, fault, wire, hvars, nApplied >>

\* msg, err := decodeMsg(b): on an error the loop reads on, on a message
\* readFrames goes on to fromDisplay <- msg.
DecodeMsg ==
  /\ Running
  /\ rPc = "decode"
  /\ LET r == decodeMsg(rMsg)
     IN IF r.kind = "panic"
          THEN fault' = FaultSlice /\ UNCHANGED rvars
        ELSE IF r.kind = "err"
          THEN rPc' = "read" /\ rMsg' = None /\ UNCHANGED fault
        ELSE rPc' = "send" /\ rMsg' = r.msg /\ UNCHANGED fault
  /\ UNCHANGED << qvars, ackIdle, dvars, cvars, wvars, dPc, dMsg, wire, hvars, nApplied >>

\* The device acknowledges the frame it has received: readFrames reads an
\* ack with the nonce of the last frame written.
ReadEcho ==
  /\ wire # None
  /\ ReadFrame([type |-> "ack", nonce |-> wire.nonce])

\* ------------------------------------------- communicate and handleFromMsg
Offered(type) == Running /\ dPc = "recv" /\ rPc = "send" /\ rMsg.type = type

\* A SplitflapState message is received; d.lastStatus = *msg.GetSplitflapState().
\* handleFromMsg holds msg until it returns.
HandleState ==
  /\ Offered("state")
  /\ lastStatus' = StatusReports[rMsg.rep]
  /\ dMsg' = rMsg
  /\ dPc' = "cells"
  /\ rPc' = "read"
  /\ rMsg' = None
  /\ UNCHANGED << qvars, ackIdle, nonce, rwOpen, tdClosed, text, cells, cvars, wvars,
                  fault, wire, hvars, nApplied >>

\* d.cells = len(d.lastStatus.Modules)
HandleStateCells ==
  /\ Running
  /\ dPc = "cells"
  /\ cells' = Len(lastStatus.modules)
  /\ dPc' = "text"
  /\ UNCHANGED << qvars, ackIdle, nonce, rwOpen, tdClosed, text, lastStatus, cvars, wvars,
                  rvars, dMsg, fault, wire, hvars, nApplied >>

\* d.text = currentText(&d.lastStatus); a flap index past runeSet panics.
HandleStateText ==
  /\ Running
  /\ dPc = "text"
  /\ IF FlapInRange(lastStatus)
       THEN /\ text' = currentText(lastStatus)
            /\ dPc' = "recv"
            /\ dMsg' = None
            /\ nApplied' = IF nApplied < MaxReports THEN nApplied + 1 ELSE nApplied
            /\ UNCHANGED fault
       ELSE /\ fault' = FaultIndex
            /\ UNCHANGED << text, dPc, dMsg, nApplied >>
  /\ UNCHANGED << qvars, ackIdle, nonce, rwOpen, tdClosed, cells, lastStatus, cvars, wvars,
                  rvars, wire, hvars >>

\* A Log message, or a message of any other kind: printed.
HandleLog ==
  /\ Offered("log")
  /\ rPc' = "read"
  /\ rMsg' = None
  /\ UNCHANGED << qvars, ackIdle, dvars, cvars, wvars, dPc, dMsg, fault, wire, hvars, nApplied >>

HandleOther ==
  /\ Offered("other")
  /\ rPc' = "read"
  /\ rMsg' = None
  /\ UNCHANGED << qvars, ackIdle, dvars, cvars, wvars, dPc, dMsg, fault, wire, hvars, nApplied >>

\* An Ack message is received: handleFromMsg goes on to acks <- nonce, where
\* it blocks until writeMsgs is in its select (WriterAck).
HandleAck ==
  /\ Offered("ack")
  /\ dMsg' = rMsg
  /\ dPc' = "ack"
  /\ ackIdle' = (wReq.id = 0)
  /\ rPc' = "read"
  /\ rMsg' = None
  /\ UNCHANGED << qvars, dvars, cvars, wvars, fault, wire, hvars, nApplied >>

\* ------------------------------------------------------------ QuakeMon.Run
\* The caller thread Run calls the display from.
IdleCaller == 1

\* The URL of the strongest quake quake.Fetch returns; "none" stands for a
\* failed fetch and for an empty list.
QuakeURLs == { "u1", "u2" }

QuakeFetches == QuakeURLs \cup { "none" }

\* truncate(desc) for the quake with that URL.
QuakeText(u) ==
  IF u = "u1" THEN << "4", ".", "6", " ", "f", "i", "j", "i" >>
  ELSE << "5", " ", "t", "o", "n", "g", "a" >>

\* showing := false; enable := true; t := time.NewTimer(q.startDelay)
RunStart ==
  /\ Running
  /\ qPc = "off"
  /\ qShowing' = FALSE
  /\ qEnable' = TRUE
  /\ tArmed' = TRUE
  /\ tFull' = FALSE
  /\ qPc' = "top"
  /\ UNCHANGED << dvars, cvars, wvars, rvars, dPc, dMsg, fault, wire, hvars,
                  nApplied, ackIdle, qURL, ctxDone >>

\* The runtime fires t: the timer stops running and the time is sent on t.C,
\* whose buffer of one drops it if it already holds a value.
TimerFire ==
  /\ Running
  /\ tArmed
  /\ tArmed' = FALSE
  /\ tFull' = TRUE
  /\ UNCHANGED << dvars, cvars, wvars, rvars, dPc, dMsg, fault, wire, hvars,
                  nApplied, ackIdle, qPc, qEnable, qShowing, qURL, ctxDone >>

\* The top of the loop: if enable { t.Reset(delay) }, which starts the timer
\* and leaves t.C as it is.
RunTop ==
  /\ Running
  /\ qPc = "top"
  /\ tArmed' = (qEnable \/ tArmed)
  /\ qPc' = "select"
  /\ UNCHANGED << dvars, cvars, wvars, rvars, dPc, dMsg, fault, wire, hvars,
                  nApplied, ackIdle, qEnable, qShowing, qURL, tFull, ctxDone >>

\* case <-t.C (taken while a request can still be built).
RunTimer ==
  /\ Running
  /\ qPc = "select"
  /\ tFull
  /\ nextId <= MaxReqs
  /\ tFull' = FALSE
  /\ qPc' = "fetch"
  /\ UNCHANGED << dvars, cvars, wvars, rvars, dPc, dMsg, fault, wire, hvars,
                  nApplied, ackIdle, qEnable, qShowing, qURL, tArmed, ctxDone >>

\* quake.Fetch and q.print up to the send inside display.SetText: Features[0]
\* of an empty list panics; the URL already shown returns at once; a new one
\* is remembered and its text sent as SetText sends it.
QuakePrint(u) ==
  /\ Running
  /\ qPc = "fetch"
  /\ IF u = "none"
       THEN /\ fault' = FaultIndex
            /\ UNCHANGED << cPc, cReq, nextId, qPc, qShowing, qURL >>
     ELSE IF u = qURL
       THEN /\ qShowing' = TRUE
            /\ qPc' = "top"
            /\ UNCHANGED << cPc, cReq, nextId, fault, qURL >>
     ELSE /\ CanStart(IdleCaller)
          /\ qURL' = u
          /\ LET prepared == PrepText(QuakeText(u))
             IN IF ~FitsCells(prepared, cells)
                  THEN /\ fault' = FaultIndex
                       /\ UNCHANGED << cPc, cReq, nextId, qPc >>
                  ELSE /\ cReq' = [cReq EXCEPT ![IdleCaller] =
                             [id |-> nextId, kind |-> "command", text |-> prepared,
                              body |-> ModuleCommands(prepared, cells)]]
                       /\ cPc' = [cPc EXCEPT ![IdleCaller] = "submit"]
                       /\ nextId' = nextId + 1
                       /\ qPc' = "inSetText"
                       /\ UNCHANGED fault
          /\ UNCHANGED qShowing
  /\ UNCHANGED << dvars, wvars, rvars, dPc, dMsg, wire, accepted, doneOrder,
                  result, pvars, nApplied, ackIdle, qEnable, tArmed, tFull,
                  ctxDone >>

\* display.SetText has returned (its error is dropped): showing = true.
RunSetTextReturn ==
  /\ Running
  /\ qPc = "inSetText"
  /\ cPc[IdleCaller] = "idle"
  /\ qShowing' = TRUE
  /\ qPc' = "top"
  /\ UNCHANGED << dvars, cvars, wvars, rvars, dPc, dMsg, fault, wire, hvars,
                  nApplied, ackIdle, qEnable, qURL, tArmed, tFull, ctxDone >>

\* if enable && !t.Stop() { <-t.C }: Stop stops a running timer and returns
\* true; on a timer that is not running it returns false and the receive
\* takes the value t.C holds, blocking while it holds none.
StopAndDrain ==
  /\ qEnable /\ ~tArmed => tFull
  /\ tArmed' = IF qEnable THEN FALSE ELSE tArmed
  /\ tFull' = IF qEnable /\ ~tArmed THEN FALSE ELSE tFull

\* case <-q.resetCh: the rendezvous with a caller of Reset.
RunReset ==
  /\ Running
  /\ qPc = "select"
  /\ StopAndDrain
  /\ qURL' = ""
  /\ qShowing' = FALSE
  /\ qPc' = "top"
  /\ UNCHANGED << dvars, cvars, wvars, rvars, dPc, dMsg, fault, wire, hvars,
                  nApplied, ackIdle, qEnable, ctxDone >>

\* case e := <-q.enableCh: the rendezvous with a caller of Enable(e).
RunEnable(e) ==
  /\ Running
  /\ qPc = "select"
  /\ StopAndDrain
  /\ qEnable' = e
  /\ qPc' = "top"
  /\ UNCHANGED << dvars, cvars, wvars, rvars, dPc, dMsg, fault, wire, hvars,
                  nApplied, ackIdle, qShowing, qURL, ctxDone >>

\* The owner of Run's context cancels it.
CtxCancel ==
  /\ Running
  /\ qPc # "off"
  /\ ~ctxDone
  /\ ctxDone' = TRUE
  /\ UNCHANGED << dvars, cvars, wvars, rvars, dPc, dMsg, fault, wire, hvars,
                  nApplied, ackIdle, qPc, qEnable, qShowing, qURL, tArmed, tFull >>

\* case <-ctx.Done(): Run returns.
RunCancel ==
  /\ Running
  /\ qPc = "select"
  /\ ctxDone
  /\ StopAndDrain
  /\ qPc' = "done"
  /\ UNCHANGED << dvars, cvars, wvars, rvars, dPc, dMsg, fault, wire, hvars,
                  nApplied, ackIdle, qEnable, qShowing, qURL, ctxDone >>

\* ------------------------------------------------------------ specification
\* The command calls: SetText, Init, and a setter with its sendConfigCmd.
CallerCmdStep ==
  \E c \in Callers :
    \/ \E t \in Texts : SetTextBuild(c, t)
    \/ InitBuild(c)
    \/ \E v \in MaxMovingVals : SetMaxMoving(c, v)
    \/ SendConfigCmdBuild(c)

\* SetText, of any text.
CallerTextStep == \E c \in Callers : \E t \in PrepInputs : SetTextBuild(c, t)

\* Close, and a send that finds toDisplay closed.
CallerCloseStep ==
  \E c \in Callers :
    \/ CloseRW(c)
    \/ CloseChan(c)
    \/ SendOnClosed(c)

\* The other setters and the accessors.
CallerOtherStep ==
  \E c \in Callers :
    \/ \E v \in ForceRotationVals : SetForceRotation(c, v)
    \/ \E v \in StartDelayVals : SetStartDelay(c, v)
    \/ \E a \in AnimStyleNames : SetAnimStyle(c, a)
    \/ SetAnimStyleReturn(c)
    \/ Text(c)
    \/ Status(c)
    \/ Settings(c)

\* The settings operations, each with its sendConfigCmd.
CallerSetStep ==
  \E c \in Callers :
    \/ \E v \in MaxMovingVals : SetMaxMoving(c, v)
    \/ \E v \in StartDelayVals : SetStartDelay(c, v)
    \/ \E v \in ForceRotationVals : SetForceRotation(c, v)
    \/ \E a \in AnimStyleNames : SetAnimStyle(c, a)
    \/ SetAnimStyleReturn(c)
    \/ SendConfigCmdBuild(c)

WriterSendStep ==
  \/ \E c \in Callers : WriterRecv(c)
  \/ WriterWriteOK
  \/ WriterTimeout

WriterAckStep ==
  \/ WriterAck
  \/ WriterSendNil

WriterFailStep ==
  \/ WriterWriteFail
  \/ WriterSendErr
  \/ WriterExit

StateMsgs == { m \in DeviceMsgs : m.type = "state" }

AckMsgs == { m \in DeviceMsgs : m.type = "ack" }

ReaderStep ==
  \/ \E m \in DeviceMsgs \ (StateMsgs \cup AckMsgs) : ReadFrame(m)
  \/ ReadBadFrame

ReaderAckStep == \E m \in AckMsgs : ReadFrame(m)

ReaderStateStep == \E m \in StateMsgs : ReadFrame(m)

\* QuakeMon.Run, its timer, and the callers of Enable, Reset and cancel.
IdlerStep ==
  \/ RunStart
  \/ TimerFire
  \/ RunTop
  \/ RunTimer
  \/ \E u \in QuakeFetches : QuakePrint(u)
  \/ RunSetTextReturn
  \/ RunReset
  \/ \E e \in BOOLEAN : RunEnable(e)
  \/ CtxCancel
  \/ RunCancel

\* readFrames, frame by frame.
ReaderRawStep ==
  \/ \E f \in RawFrames : ReadBytes(f)
  \/ DecodeMsg

DispatcherStep ==
  \/ HandleLog
  \/ HandleOther

DispatcherStateStep ==
  \/ HandleState
  \/ HandleStateCells
  \/ HandleStateText

Next ==
  \/ CallerCmdStep
  \/ CallerTextStep
  \/ CallerCloseStep
  \/ CallerOtherStep
  \/ WriterSendStep
  \/ WriterAckStep
  \/ WriterFailStep
  \/ ReaderStep
  \/ ReaderAckStep
  \/ ReaderStateStep
  \/ ReaderRawStep
  \/ ReadEcho
  \/ IdlerStep
  \/ ReadFail
  \/ DispatcherStep
  \/ HandleAck
  \/ DispatcherStateStep

Spec == Init /\ [][Next]_vars

\* The command protocol: every lane, with a device that sends acks and log
\* lines and no status report.
NextProto ==
  \/ CallerCmdStep
  \/ CallerCloseStep
  \/ WriterSendStep
  \/ WriterAckStep
  \/ WriterFailStep
  \/ ReaderStep
  \/ ReaderAckStep
  \/ ReadFail
  \/ DispatcherStep
  \/ HandleAck

SpecProto == Init /\ [][NextProto]_vars

\* The scheduling of the lanes: a goroutine that can run does run, a started
\* write returns, the retry timer fires, and a select that is entered again
\* and again with the dispatcher blocked in acks <- nonce takes the ack.
Fairness ==
  /\ WF_vars(\E c \in Callers : WriterRecv(c))
  /\ WF_vars(WriterWriteOK \/ WriterWriteFail)
  /\ WF_vars(WriterTimeout)
  /\ SF_vars(WriterAck)
  /\ WF_vars(WriterSendNil)
  /\ WF_vars(WriterSendErr)
  /\ WF_vars(WriterExit)
  /\ WF_vars(HandleAck)
  /\ WF_vars(DispatcherStep)
  /\ WF_vars(\E c \in Callers : SendConfigCmdBuild(c) \/ CloseChan(c) \/ SendOnClosed(c))

FairProto == SpecProto /\ Fairness

\* A device that never acknowledges, on a transport whose reads and writes
\* succeed and that nobody closes.
NextSilent ==
  \/ CallerCmdStep
  \/ WriterSendStep
  \/ ReaderStep
  \/ DispatcherStep

SpecSilent == Init /\ [][NextSilent]_vars

\* The display state: the callers, writeMsgs transmitting their commands, and
\* a device that sends status reports and no ack.
NextState ==
  \/ CallerCmdStep
  \/ CallerOtherStep
  \/ WriterSendStep
  \/ ReaderStateStep
  \/ DispatcherStateStep

SpecState == Init /\ [][NextState]_vars

\* The frames: the callers, writeMsgs, and readFrames reading and decoding
\* whatever the transport delivers.
NextFrames ==
  \/ CallerCmdStep
  \/ WriterSendStep
  \/ WriterAckStep
  \/ ReaderRawStep
  \/ DispatcherStep
  \/ HandleAck

SpecFrames == Init /\ [][NextFrames]_vars

\* The nonces: the counter starts at an edge, and the device acknowledges
\* what it receives, so that request after request completes.
InitNonce == InitWith(NonceEdges)

NextNonce ==
  \/ CallerCmdStep
  \/ WriterSendStep
  \/ WriterAckStep
  \/ ReadEcho
  \/ HandleAck

SpecNonce == InitNonce /\ [][NextNonce]_vars

\* The texts: SetText of every input, with a device that acknowledges.
NextText ==
  \/ CallerTextStep
  \/ WriterSendStep
  \/ WriterAckStep
  \/ ReadEcho
  \/ HandleAck

SpecText == Init /\ [][NextText]_vars

\* readFrames yields a status report whose settings are not the defaults.
ReaderSettingsStep ==
  \E m \in { r \in StateMsgs : StatusReports[r.rep].settings # DefaultSettings } :
    ReadFrame(m)

\* The settings: the setters, writeMsgs, and a device that acknowledges what
\* it is sent and reports settings of its own.
NextConfig ==
  \/ CallerSetStep
  \/ WriterSendStep
  \/ WriterAckStep
  \/ ReaderSettingsStep
  \/ ReadEcho
  \/ DispatcherStateStep
  \/ HandleAck

SpecConfig == Init /\ [][NextConfig]_vars

\* The idler: Run as the display's only caller, with writeMsgs and a device
\* that may acknowledge.
NextIdle ==
  \/ IdlerStep
  \/ WriterSendStep
  \/ WriterAckStep
  \/ ReaderAckStep
  \/ HandleAck

SpecIdle == Init /\ [][NextIdle]_vars

\* The scheduling of Run: a fetch returns, a runnable step of Run is taken,
\* and a select that is entered again and again with the context cancelled
\* takes the Done case.
IdleFairness ==
  /\ WF_vars(RunStart)
  /\ WF_vars(RunTop)
  /\ WF_vars(\E u \in QuakeFetches : QuakePrint(u))
  /\ WF_vars(RunSetTextReturn)
  /\ SF_vars(RunCancel)

FairIdle == SpecIdle /\ Fairness /\ IdleFairness

\* ------------------------------------------------------------------ claims
IsPrefix(p, q) == Len(p) <= Len(q) /\ \A i \in 1..Len(p) : p[i] = q[i]

Signalled(r) == result[r] # "none"

Pending == wReq.id # 0

\* C1: at most one request is in flight: a request has a frame on the wire
\* only once the requester of every request accepted before it has been
\* signalled.
C1_OneInFlight ==
  \A i, j \in 1..Len(accepted) :
    (i < j /\ accepted[j] \in sent) => Signalled(accepted[i])

\* Two requests were accepted and the second one has been transmitted.
C1_Witness == Len(accepted) = 2 /\ accepted[2] \in sent

\* C2: requests complete in the order writeMsgs accepted them: the order in
\* which requesters are signalled is a prefix of the order of acceptance, and
\* a request is transmitted only after every earlier one is in that prefix.
C2_FifoCompletion ==
  /\ IsPrefix(doneOrder, accepted)
  /\ \A j \in 1..Len(accepted) : accepted[j] \in sent => Len(doneOrder) >= j - 1

\* Two requests have completed, in the order of their acceptance.
C2_Witness == Len(doneOrder) = 2 /\ doneOrder = accepted

\* C3: with a device that never acknowledges and writes that succeed, every
\* expiry of the retry timer leads to a transmission, every transmission of
\* the pending request puts the frame of the first one (same nonce, same
\* payload) on the wire, no requester is ever signalled and the nonce never
\* advances.
C3_SilentDeviceRetries ==
  /\ [](\A r \in ReqIds : ~Signalled(r))
  /\ [](Pending /\ tx > 0 => wire = firstTx /\ wire = wReq.msg /\ wire.nonce = wNonce)
  /\ [][wNonce' = wNonce /\ nonce' = nonce]_vars
  /\ [][(wPc = "select" /\ wPc' # "select") => (wPc' = "write" /\ wReq' = wReq)]_vars
  /\ [][(wPc = "write" /\ wPc' # "write") =>
          (wPc' = "select" /\ wire' = wReq.msg /\ tx' = IF tx < MaxTx THEN tx + 1 ELSE tx)]_vars

\* The pending request has been transmitted MaxTx times and its requester
\* still waits.
C3_Witness ==
  /\ Pending
  /\ tx = MaxTx
  /\ wPc = "select"
  /\ Waiting(wReq.caller)
  /\ ~Signalled(wReq.id)

\* C4 (as claimed): once an ack with the pending request's nonce has reached
\* writeMsgs, the request is not transmitted again, its requester is there to
\* be signalled nil, and the step that signals it moves writeMsgs to the next
\* nonce and the next request.
C4_MatchingAckCompletes ==
  /\ []((Pending /\ ackMatched) =>
          (wPc = "sendNil" /\ Waiting(wReq.caller) /\ ~Signalled(wReq.id)))
  /\ [][(wPc = "sendNil" /\ wPc' # "sendNil") =>
          (/\ result'[wReq.id] = "ok"
           /\ wPc' = "recv"
           /\ wNonce' = (wNonce + 1) % TagMod)]_vars

\* An ack that does not match the pending request is held by the dispatcher.
HoldsMismatch == dPc = "ack" /\ Pending /\ dMsg.nonce # wNonce

\* C5 (as claimed): the delivery of an ack whose nonce differs from the
\* pending request's signals nobody and leaves the nonce and the request as
\* they were, and the dispatcher holding such an ack gets rid of it: it is
\* not blocked forever in acks <- nonce.
C5_MismatchTolerated ==
  /\ [][(HoldsMismatch /\ wPc = "select" /\ dPc' = "recv") =>
          (result' = result /\ wNonce' = wNonce /\ wReq' = wReq)]_vars
  /\ (HoldsMismatch ~> (dPc # "ack" \/ ~Running))

\* C6 (as claimed): once Close has been called, no lane and no caller faults.
C6_CloseIsClean == ~rwOpen => Running

\* C7 (as claimed): a read failure never ends the process with a panic.
C7_ReadFailureIsCooperative == fault # FaultRead

\* The step in which the requester of r returns from its call.
Returns(r) == result[r] = "none" /\ result'[r] # "none"

\* C8 (as claimed): a command call returns nil only after an ack with its
\* request's nonce has reached writeMsgs, and returns an error only after the
\* connection has been closed.
C8_ReturnsOnAckOrTeardown ==
  [][\A r \in ReqIds : Returns(r) =>
       \/ result'[r] = "ok" /\ wReq.id = r /\ ackMatched
       \/ result'[r] = "err" /\ ~rwOpen]_vars

\* C8 (amended): a command call returns nil only after an ack with its
\* request's nonce has reached writeMsgs, and returns an error only after a
\* transport write of its request has failed; a caller leaves <-ch in no
\* other step.
C8_ReturnsOnAckOrWriteFailure ==
  /\ [][\A r \in ReqIds : Returns(r) =>
          \/ result'[r] = "ok" /\ wReq.id = r /\ ackMatched
          \/ result'[r] = "err" /\ wReq.id = r /\ wrFailed]_vars
  /\ [][\A c \in Callers : (cPc[c] = "wait" /\ cPc'[c] # "wait") =>
          (cPc'[c] = "idle" /\ Returns(cReq[c].id))]_vars

\* A call has returned an error on a port that is still open, and another
\* has returned nil.
C8_Witness ==
  /\ rwOpen
  /\ \E r \in ReqIds : result[r] = "err"
  /\ \E r \in ReqIds : result[r] = "ok"

\* The parts of the display state.
Derived == << lastStatus.modules, cells, text >>

\* C9 (as claimed): once a status report has been applied, the module count
\* and the text a caller can read are those of the status it can read.
C9_ConsistentSnapshot ==
  nApplied >= 1 =>
    (cells = Len(lastStatus.modules) /\ text = currentText(lastStatus))

\* C10 (as claimed): every step that changes the display state is a step of
\* the dispatcher handling a status report.
C10_DispatcherOnlyWriter ==
  [][(lastStatus' # lastStatus \/ cells' # cells \/ text' # text) =>
       DispatcherStateStep]_vars

\* A setter's write: one settings field changes, nothing else of the state.
SetterWrites ==
  /\ Derived' = Derived
  /\ \E c \in Callers :
       /\ cPc[c] = "idle"
       /\ cPc'[c] = "config"
       /\ \E f \in DOMAIN lastStatus.settings :
            \A g \in DOMAIN lastStatus.settings \ { f } :
              lastStatus'.settings[g] = lastStatus.settings[g]

\* C10 (amended): the modules, the module count and the text are changed
\* only by the dispatcher handling a status report; the settings are changed
\* by it and by the first statement of a setter, and by no other step.
C10_WritersOfDisplayState ==
  [][/\ Derived' # Derived => DispatcherStateStep
     /\ lastStatus'.settings # lastStatus.settings =>
          (DispatcherStateStep \/ SetterWrites)]_vars

\* A status report has been applied by the dispatcher, and a setter has
\* written its value into the settings and has not sent yet.
C10_Witness ==
  /\ nApplied >= 1
  /\ \E c \in Callers : cPc[c] = "config"
  /\ lastStatus.settings.maxMoving \in MaxMovingVals

\* The step in which handleFromMsg returns from a status report whose flap
\* indices are all in runeSet.
StatusHandled == dPc = "text" /\ dPc' = "recv"

\* C11 (as claimed): when the dispatcher has handled the status report S, the
\* display state is S: the last status with its settings, the module count
\* is the number of S's modules and the text is S's modules' characters.
C11_ReportReplacesState ==
  [][StatusHandled =>
       /\ lastStatus' = StatusReports[dMsg.rep]
       /\ cells' = Len(StatusReports[dMsg.rep].modules)
       /\ text' = currentText(StatusReports[dMsg.rep])]_vars

\* The step in which readFrames is done with a frame that decodeMsg does not
\* turn into a message.
FrameFails ==
  /\ rPc = "decode"
  /\ decodeMsg(rMsg).kind # "msg"
  /\ rvars' # rvars \/ fault' # fault

\* C12 (as claimed): a frame that fails decoding is not forwarded, readFrames
\* reads on, and the display state, the pending request, its retry loop, the
\* nonce counter, the callers and the dispatcher are as they were.
C12_BadFrameChangesNothing ==
  [][FrameFails =>
       /\ rPc' = "read"
       /\ UNCHANGED << dvars, cvars, wvars, dPc, dMsg, fault, wire, hvars, nApplied,
                       ackIdle, qvars >>]_vars

\* C13 (as claimed): whatever frame readFrames has read, decodeMsg yields a
\* message or an error, and no slice expression of it faults.
C13_DecodeIsTotal ==
  /\ fault # FaultSlice
  /\ rPc = "decode" => decodeMsg(rMsg).kind \in { "msg", "err" }

\* The dispatcher is blocked in acks <- nonce with an ack it took from
\* fromDisplay while writeMsgs had no request.
HoldsIdleAck == dPc = "ack" /\ ackIdle

\* C14 (as claimed): an ack that arrives while no request is pending is
\* discarded: the dispatcher does not sit on it until writeMsgs takes the
\* next request, and it is never delivered to writeMsgs' select.
C14_IdleAckDiscarded ==
  /\ [][(wReq.id = 0 /\ wReq'.id # 0) => ~HoldsIdleAck]_vars
  /\ [][(dPc = "ack" /\ dPc' = "recv") => ~ackIdle]_vars

\* The names SetAnimStyle's lookup does not find.
UnknownStyles == { a \in AnimStyleNames : AnimStyleValue(a) < 0 }

\* C15: SetAnimStyle with an unknown name changes nothing but its caller's
\* position: no settings field or other display state is written, no request
\* is built, queued or transmitted, and the caller's only next step is the
\* return of the error.
C15_UnknownStyleRejected ==
  /\ [][\A c \in Callers : \A a \in UnknownStyles :
          SetAnimStyle(c, a) =>
            /\ cPc'[c] = "rejected"
            /\ UNCHANGED << dvars, cReq, wvars, wire, hvars >>]_vars
  /\ [][\A c \in Callers :
          (cPc[c] = "rejected" /\ cPc'[c] # "rejected") =>
            (cPc'[c] = "idle" /\ cReq'[c] = cReq[c] /\ nextId' = nextId)]_vars

\* SetAnimStyle has been called with an unknown name after another setter
\* has written the settings, and is about to return its error.
C15_Witness ==
  /\ \E c \in Callers : cPc[c] = "rejected"
  /\ lastStatus.settings # DefaultSettings

\* The nonces a message can carry.
TagRange == 0..(TagMod - 1)

\* C16: every nonce writeMsgs holds, puts into a request or writes to the
\* transport lies in 0..254, wherever the 32-bit counter started.
C16_TagInRange ==
  /\ wNonce \in TagRange
  /\ wReq # None => wReq.msg.nonce \in TagRange
  /\ wire # None => wire.nonce \in TagRange

\* The counter has wrapped from 2^32-1 to 0 and a request drawn at the wrap
\* has been transmitted and completed.
C16_Witness ==
  /\ nonce = << 0, 1 >>
  /\ Len(doneOrder) >= 1
  /\ wire # None

\* C17 (as claimed): when a request completes, the nonce of the next request
\* is the completed one's plus one, modulo 255.
C17_TagsAdvanceByOne ==
  [][(wPc = "sendNil" /\ wPc' = "recv") => wNonce' = (wNonce + 1) % TagMod]_vars

\* The prepared text of the SetText call caller c is in.
InSetText(c) == cPc[c] \in { "submit", "wait" } /\ cReq[c].kind = "command"

\* A row of the display: twelve whole characters.
IsRow(row) == Len(row) = RowLen /\ \A i \in 1..Len(row) : row[i] # BrokenRune

\* C18 (as claimed): the text PrepText returns to SetText is 24 characters,
\* two rows of 12.
C18_PrepTextIsTwoRows ==
  \A c \in Callers :
    InSetText(c) =>
      /\ Len(cReq[c].text) = 2 * RowLen
      /\ IsRow(SubSeq(cReq[c].text, 1, RowLen))
      /\ IsRow(SubSeq(cReq[c].text, RowLen + 1, 2 * RowLen))

\* C19 (as claimed): while Run's enable is false, that is from an accepted
\* Enable(false) to the next accepted Enable(true), Run is not in a SetText
\* call it started then; and whenever Run enters its select enabled, the
\* timer has been started again.
C19_DisabledIdlerIsSilent ==
  /\ [][(qPc = "fetch" /\ qPc' = "inSetText") => qEnable]_vars
  /\ [][(qPc = "top" /\ qPc' = "select" /\ qEnable) => tArmed']_vars

\* C20 (as claimed): once the context of a running Run is cancelled, Run
\* returns (or the process has ended with a panic).
C20_CancelEndsRun ==
  (ctxDone /\ qPc # "off") ~> (qPc = "done" \/ ~Running)

\* C21 (as claimed): an ack whose nonce differs from the pending request's,
\* taken by writeMsgs in its select, leaves writeMsgs waiting in that select:
\* it goes on to no transmission, which only the retry timer brings about.
C21_MismatchKeepsWaiting ==
  [][(HoldsMismatch /\ wPc = "select" /\ dPc' = "recv") => wPc' = "select"]_vars

\* C22 (as claimed): whenever writeMsgs is about to send on req.ch, the
\* requester of req is still blocked receiving from it: its one value has not
\* been sent yet, so the send goes through and writeMsgs moves on.
C22_WriterFindsRequester ==
  wPc \in { "sendErr", "sendNil" } => (Waiting(wReq.caller) /\ ~Signalled(wReq.id))

\* C23 (as claimed): whatever module count the status reports have set,
\* SetText does not fault building its command, and the command it submits
\* has an entry for every module, none of them nil.
C23_SetTextFitsModuleCount ==
  /\ fault # FaultIndex
  /\ \A c \in Callers :
       InSetText(c) => \A i \in 1..Len(cReq[c].body) : cReq[c].body[i] # -1

\* A settings operation of caller c returns nil.
SetterSucceeds(c) ==
  /\ cPc[c] = "wait" /\ cPc'[c] = "idle"
  /\ cReq[c].kind = "config"
  /\ result'[cReq[c].id] = "ok"

\* C24 (as claimed): when a settings operation returns nil, the config
\* command sent and acknowledged for it carried the value the call was given
\* in the field the call sets.
C24_ConfigCarriesArgument ==
  [][\A c \in Callers :
       SetterSucceeds(c) => cReq[c].body[cReq[c].field] = cReq[c].value]_vars

\* C25 (as claimed): Run's handling of a fetch, failed and empty ones
\* included, never ends in a panic: Run is not left in its timer case with
\* the process ended by an index out of range.
C25_FetchFailureIsHarmless == ~(qPc = "fetch" /\ fault = FaultIndex)

====
